---- MODULE Spec2Model ----
(***************************************************************************)
(* Book catalogue browser: filtering, pagination, selection, theme and     *)
(* overlay handlers of scripts.js (src/unnamed/part_001), modelled as a    *)
(* state machine with one action per event handler.                        *)
(***************************************************************************)
EXTENDS Integers, Sequences, FiniteSets, TLC

(* ---------------- bounds of the model ---------------- *)
MaxBooks == 5        \* largest dataset drawn in Init
MaxPage  == 4        \* cap on the pagination cursor (unbounded in the code)
MaxPath  == 1        \* longest event propagation path of a click
PanelBooks == 3      \* largest dataset of the specification with every handler
MaxWalk  == 2        \* longest propagation path given to the two click handlers

(* ---------------- data.js (imported, part_001:1) ---------------- *)
BOOKS_PER_PAGE == 2

authors == [a1 |-> "Ann Author", a2 |-> "Bob Writer"]

genres == [g1 |-> "Fantasy", g2 |-> "Science"]

IdPool == <<"b1", "b2", "b3", "b4", "b5", "b6", "b7", "b8">>

AbsentId == "zz"

\* title / author / genres / published combinations the records cycle through
Profiles ==
  << [title |-> <<"A", "b">>,      author |-> "a1", genres |-> <<"g1">>,       published |-> [year |-> 1990, month |-> 5]],
     [title |-> <<"b", " ", "a">>, author |-> "a2", genres |-> <<"g1", "g2">>, published |-> [year |-> 2004, month |-> 11]],
     [title |-> <<"B">>,           author |-> "a1", genres |-> <<>>,           published |-> [year |-> 2011, month |-> 1]] >>

MkBook(i, p) ==
  [id |-> IdPool[i], title |-> p.title, author |-> p.author, genres |-> p.genres,
   image |-> <<"cover", IdPool[i]>>, description |-> <<"about", IdPool[i]>>,
   published |-> p.published]

\* the dataset of n records whose profiles start at the given offset of the cycle
Catalog(shift, n) == [i \in 1..n |-> MkBook(i, Profiles[((i - 1 + shift) % Len(Profiles)) + 1])]

Datasets == { Catalog(shift, n) : shift \in 0..(Len(Profiles) - 1), n \in 0..MaxBooks }

(* ---------------- inputs of the events ---------------- *)
TitleQueries == { <<>>, <<"a">>, <<" ">>, <<"B">> }

AuthorQueries == {"any", "a1", "a2"}

GenreQueries == {"any", "g1", "g2"}

Queries == [title : TitleQueries, author : AuthorQueries, genre : GenreQueries]

Themes == {"day", "night"}

\* a node of the propagation path: has it a data-preview attribute, and its value
Nodes(bs) ==
  { [has |-> FALSE, preview |-> ""], [has |-> TRUE, preview |-> ""], [has |-> TRUE, preview |-> AbsentId] }
    \cup { [has |-> TRUE, preview |-> bs[i].id] : i \in 1..Len(bs) }

Paths(bs) == UNION { [1..n -> Nodes(bs)] : n \in 0..MaxPath }

(* ---------------- string and array primitives ---------------- *)
UpperChars == <<"A", "B">>

LowerChars == <<"a", "b">>

LowerChar(c) ==
  IF \E k \in 1..Len(UpperChars) : UpperChars[k] = c
  THEN LowerChars[CHOOSE k \in 1..Len(UpperChars) : UpperChars[k] = c]
  ELSE c

toLowerCase(s) == [i \in 1..Len(s) |-> LowerChar(s[i])]

IsSpace(c) == c = " "

RECURSIVE trimStart(_)
trimStart(s) == IF s # <<>> /\ IsSpace(Head(s)) THEN trimStart(Tail(s)) ELSE s

RECURSIVE trimEnd(_)
trimEnd(s) == IF s # <<>> /\ IsSpace(s[Len(s)]) THEN trimEnd(SubSeq(s, 1, Len(s) - 1)) ELSE s

trim(s) == trimEnd(trimStart(s))

\* String.prototype.includes
includes(s, sub) == \E i \in 0..(Len(s) - Len(sub)) : SubSeq(s, i + 1, i + Len(sub)) = sub

\* Array.prototype.includes
arrayIncludes(arr, x) == \E i \in 1..Len(arr) : arr[i] = x

Min(a, b) == IF a < b THEN a ELSE b

\* Array.prototype.slice(start, end) for non-negative start and end
slice(arr, start, end) == SubSeq(arr, Min(start, Len(arr)) + 1, Min(end, Len(arr)))

(* ---------------- state ---------------- *)
VARIABLES
  books,               \* the dataset imported from data.js
  page,                \* let page (part_001:3)
  matches,             \* let matches (part_001:4)
  listItems,           \* children of [data-list-items]
  listMessageShow,     \* class list__message_show on [data-list-message]
  listButtonDisabled,  \* [data-list-button].disabled
  listButtonRemaining, \* the number shown in the label of [data-list-button]
  searchOverlayOpen,   \* [data-search-overlay].open
  settingsOverlayOpen, \* [data-settings-overlay].open
  listActive,          \* the detail panel: [data-list-active] and its fields
  settingsTheme,       \* [data-settings-theme].value
  colorDark,           \* --color-dark
  colorLight,          \* --color-light
  lastEvent,           \* the handler that ran last, and the identifier a list click captured
  bookPreview,         \* a BookPreview element: its attributes and its shadow DOM
  clickPath            \* the propagation path of the click event being dispatched

vars == <<books, page, matches, listItems, listMessageShow, listButtonDisabled,
          listButtonRemaining, searchOverlayOpen, settingsOverlayOpen, listActive,
          settingsTheme, colorDark, colorLight, lastEvent, bookPreview, clickPath>>

catalogVars == <<page, matches, listItems, listMessageShow, listButtonDisabled, listButtonRemaining>>

themeVars == <<settingsTheme, colorDark, colorLight>>

(* ---------------- filter (search form submit handler) ---------------- *)
genreMatch(book, filters) == filters.genre = "any" \/ arrayIncludes(book.genres, filters.genre)

\* mutant: the query is trimmed before the substring test as well
titleMatch_trimmedQuery(book, filters) ==
  trim(filters.title) = <<>> \/ includes(toLowerCase(book.title), toLowerCase(trim(filters.title)))

titleMatch(book, filters) ==
  trim(filters.title) = <<>> \/ includes(toLowerCase(book.title), toLowerCase(filters.title))

authorMatch(book, filters) == filters.author = "any" \/ book.author = filters.author

\* mutant: "titleMatch && authorMatch || genreMatch"
bookMatches_orGenre(book, filters) ==
  (titleMatch(book, filters) /\ authorMatch(book, filters)) \/ genreMatch(book, filters)

bookMatches(book, filters) ==
  titleMatch(book, filters) /\ authorMatch(book, filters) /\ genreMatch(book, filters)

\* mutant: the filter narrows the previous result instead of the dataset
filterBooks_fromMatches(bs, filters) == SelectSeq(matches, LAMBDA b : bookMatches(b, filters))

\* books.filter(book => ...): one pass in dataset order
RECURSIVE filterBooks(_, _)
filterBooks(bs, filters) ==
  IF bs = <<>> THEN <<>>
  ELSE IF bookMatches(Head(bs), filters)
       THEN <<Head(bs)>> \o filterBooks(Tail(bs), filters)
       ELSE filterBooks(Tail(bs), filters)

(* ---------------- rendering ---------------- *)
createBookElement(book) ==
  [preview |-> book.id, image |-> book.image, title |-> book.title, author |-> authors[book.author]]

\* mutant: the new elements are put in front of the list
displayBooks_prepend(items, bs) == [i \in 1..Len(bs) |-> createBookElement(bs[i])] \o items

\* appends one element per book to the list
displayBooks(items, bs) == items \o [i \in 1..Len(bs) |-> createBookElement(bs[i])]

\* mutant: the list is not cleared before the first page is rendered
clearListItems_keep(items) == items

\* [data-list-items].innerHTML = ''
clearListItems(items) == <<>>

firstPage(ms) == slice(ms, 0, BOOKS_PER_PAGE)

\* mutant: the block of the current page is rendered again
nextPage_current(ms, p) == slice(ms, (p - 1) * BOOKS_PER_PAGE, p * BOOKS_PER_PAGE)

\* mutant: the handler renders cumulatively, from the start of the results
nextPage_cumulative(ms, p) == slice(ms, 0, (p + 1) * BOOKS_PER_PAGE)

nextPage(ms, p) == slice(ms, p * BOOKS_PER_PAGE, (p + 1) * BOOKS_PER_PAGE)

remainingCount(ms, p) == Len(ms) - (p * BOOKS_PER_PAGE)

\* mutant: off by one in the emptiness test
showNoResults_offByOne(result) == Len(result) <= 1

showNoResults(result) == Len(result) < 1

(* ---------------- theme ---------------- *)
darkColors(theme) == IF theme = "night" THEN "255, 255, 255" ELSE "10, 10, 20"

\* mutant: the light colour is computed like the dark one
lightColors_likeDark(theme) == IF theme = "night" THEN "255, 255, 255" ELSE "10, 10, 20"

lightColors(theme) == IF theme = "night" THEN "10, 10, 20" ELSE "255, 255, 255"

(* ---------------- selection ---------------- *)
\* node?.dataset?.preview is truthy
hasPreview(node) == node.has /\ node.preview # ""

\* mutant: the last node with an identifier is taken instead of the first
findPreview_last(path) ==
  LET idx == { i \in 1..Len(path) : hasPreview(path[i]) } IN
  IF idx = {} THEN <<>> ELSE <<path[CHOOSE i \in idx : \A j \in idx : j <= i].preview>>

\* pathArray.find(node => node?.dataset?.preview)?.dataset?.preview : <<>> is undefined
RECURSIVE findPreview(_)
findPreview(path) ==
  IF path = <<>> THEN <<>>
  ELSE IF hasPreview(Head(path)) THEN <<Head(path).preview>>
       ELSE findPreview(Tail(path))

\* Array.prototype.find by identifier: <<>> is undefined
RECURSIVE findById(_, _)
findById(bs, id) ==
  IF bs = <<>> THEN <<>>
  ELSE IF Head(bs).id = id THEN <<Head(bs)>> ELSE findById(Tail(bs), id)

\* mutant: the lookup goes to the filtered results
booksFind_inMatches(id) == findById(matches, id)

\* mutant: the lookup falls back to the first record
booksFind_orFirst(id) ==
  IF findById(books, id) # <<>> \/ books = <<>> THEN findById(books, id) ELSE <<books[1]>>

booksFind(id) == findById(books, id)

getFullYear(date) == date.year

detailOf(book) ==
  [open |-> TRUE, blur |-> book.image, image |-> book.image, title |-> book.title,
   subtitle |-> <<authors[book.author], " (", getFullYear(book.published), ")">>,
   description |-> book.description]

EmptyDetail ==
  [open |-> FALSE, blur |-> <<>>, image |-> <<>>, title |-> <<>>, subtitle |-> <<>>, description |-> <<>>]

\* a handler, with the value of its local "active" (<<>>: undefined, or not a list click)
Event(handler, active) == [handler |-> handler, active |-> active]

(* ---------------- initialization ---------------- *)
\* the state initialization leaves, for a dataset bs
Start(bs) ==
  /\ books = bs
  /\ page = 1
  /\ matches = books
  /\ listItems = displayBooks(<<>>, firstPage(books))
  /\ listMessageShow = FALSE
  /\ listButtonRemaining = Len(books) - BOOKS_PER_PAGE
  /\ listButtonDisabled = (remainingCount(books, 1) <= 0)
  /\ searchOverlayOpen = FALSE
  /\ settingsOverlayOpen = FALSE
  /\ listActive = EmptyDetail
  /\ \E theme \in Themes :
       /\ settingsTheme = theme
       /\ colorDark = darkColors(theme)
       /\ colorLight = lightColors(theme)
  /\ lastEvent = Event("init", <<>>)

\* BookPreview constructor: no attribute set, the template's empty image and texts
NewBookPreview ==
  [connected |-> FALSE,
   attrs |-> [title |-> <<>>, author |-> <<>>, image |-> <<>>, id |-> <<>>],
   shown |-> [title |-> "", author |-> "", src |-> ""]]

Init ==
  /\ \E bs \in Datasets : Start(bs)
  /\ bookPreview = NewBookPreview
  /\ clickPath = <<>>

(* ---------------- event handlers ---------------- *)
\* mutant: the trigger toggles the flag
HeaderSearchClick_toggle ==
  /\ lastEvent' = Event("headerSearch", <<>>)
  /\ searchOverlayOpen' = ~searchOverlayOpen
  /\ UNCHANGED <<books, bookPreview, clickPath, catalogVars, settingsOverlayOpen, listActive, themeVars>>

HeaderSearchClick ==
  /\ lastEvent' = Event("headerSearch", <<>>)
  /\ searchOverlayOpen' = TRUE
  /\ UNCHANGED <<books, bookPreview, clickPath, catalogVars, settingsOverlayOpen, listActive, themeVars>>

SearchCancelClick ==
  /\ lastEvent' = Event("searchCancel", <<>>)
  /\ searchOverlayOpen' = FALSE
  /\ UNCHANGED <<books, bookPreview, clickPath, catalogVars, settingsOverlayOpen, listActive, themeVars>>

HeaderSettingsClick ==
  /\ lastEvent' = Event("headerSettings", <<>>)
  /\ settingsOverlayOpen' = TRUE
  /\ UNCHANGED <<books, bookPreview, clickPath, catalogVars, searchOverlayOpen, listActive, themeVars>>

SettingsCancelClick ==
  /\ lastEvent' = Event("settingsCancel", <<>>)
  /\ settingsOverlayOpen' = FALSE
  /\ UNCHANGED <<books, bookPreview, clickPath, catalogVars, searchOverlayOpen, listActive, themeVars>>

\* mutant: closing the detail panel empties the list
ListCloseClick_clearsList ==
  /\ lastEvent' = Event("listClose", <<>>)
  /\ listActive' = [listActive EXCEPT !.open = FALSE]
  /\ listItems' = <<>>
  /\ UNCHANGED <<books, bookPreview, clickPath, page, matches, listMessageShow, listButtonDisabled,
                 listButtonRemaining, searchOverlayOpen, settingsOverlayOpen, themeVars>>

ListCloseClick ==
  /\ lastEvent' = Event("listClose", <<>>)
  /\ listActive' = [listActive EXCEPT !.open = FALSE]
  /\ UNCHANGED <<books, bookPreview, clickPath, catalogVars, searchOverlayOpen, settingsOverlayOpen, themeVars>>

SettingsSubmit(theme) ==
  /\ lastEvent' = Event("settingsSubmit", <<>>)
  /\ settingsTheme' = theme
  /\ colorDark' = darkColors(theme)
  /\ colorLight' = lightColors(theme)
  /\ settingsOverlayOpen' = FALSE
  /\ UNCHANGED <<books, bookPreview, clickPath, catalogVars, searchOverlayOpen, listActive>>

SearchSubmit(filters) ==
  LET result == filterBooks(books, filters) IN
  /\ lastEvent' = Event("searchSubmit", <<>>)
  /\ page' = 1
  /\ matches' = result
  /\ listMessageShow' = showNoResults(result)
  /\ listItems' = displayBooks(clearListItems(listItems), firstPage(result))
  /\ listButtonDisabled' = (remainingCount(result, 1) < 1)
  /\ listButtonRemaining' = remainingCount(result, 1)
  /\ searchOverlayOpen' = FALSE
  /\ UNCHANGED <<books, bookPreview, clickPath, settingsOverlayOpen, listActive, themeVars>>

\* a disabled button dispatches no click; the cursor is capped at MaxPage
ListButtonClick ==
  /\ lastEvent' = Event("listButton", <<>>)
  /\ ~listButtonDisabled
  /\ page < MaxPage
  /\ listItems' = displayBooks(listItems, nextPage(matches, page))
  /\ page' = page + 1
  /\ UNCHANGED <<books, bookPreview, clickPath, matches, listMessageShow, listButtonDisabled, listButtonRemaining,
                 searchOverlayOpen, settingsOverlayOpen, listActive, themeVars>>

ListItemsClick(path) ==
  LET active == findPreview(path) IN
  /\ lastEvent' = Event("listItems", active)
  /\ IF active # <<>> /\ booksFind(active[1]) # <<>>
     THEN listActive' = detailOf(booksFind(active[1])[1])
     ELSE UNCHANGED listActive
  /\ UNCHANGED <<books, bookPreview, clickPath, catalogVars, searchOverlayOpen, settingsOverlayOpen, themeVars>>

\* the events of the catalogue: search, reveal more, selection
Next ==
  \/ ListCloseClick
  \/ \E filters \in Queries : SearchSubmit(filters)
  \/ ListButtonClick
  \/ \E path \in Paths(books) : ListItemsClick(path)

Spec == Init /\ [][Next]_vars

\* the search form and the show-more button alone
NextSearch ==
  \/ \E filters \in Queries : SearchSubmit(filters)
  \/ ListButtonClick

SpecSearch == Init /\ [][NextSearch]_vars

\* the search form submitted with a title alone, over a wider set of titles
TitleInputs ==
  { <<>>, <<" ">>, <<" ", " ">>, <<"a">>, <<"A">>, <<"b">>, <<"B">>, <<" ", "a">>, <<"a", " ">>,
    <<"b", " ">>, <<" ", "b">>, <<"a", "b">>, <<"A", "B">>, <<"b", "a">>, <<"B", " ", "A">>,
    <<"b", " ", " ", "a">>, <<" ", "B", " ">> }

TitleSubmit(title) == SearchSubmit([title |-> title, author |-> "any", genre |-> "any"])

NextTitle == \E title \in TitleInputs : TitleSubmit(title)

SpecTitle == Init /\ [][NextTitle]_vars

(* ---------------- the click handler of scripts.js ---------------- *)
\* for (const node of pathArray): stop once active is set; a node with an identifier sets
\* active to the first record with that identifier, or to null (<<>>)
RECURSIVE walkPath(_, _)
walkPath(path, active) ==
  IF path = <<>> \/ active # <<>> THEN active
  ELSE walkPath(Tail(path),
                IF hasPreview(Head(path)) THEN findById(books, Head(path).preview) ELSE active)

ListItemsClickWalk(path) ==
  LET active == walkPath(path, <<>>) IN
  /\ lastEvent' = Event("listItemsWalk", IF active = <<>> THEN <<>> ELSE <<active[1].id>>)
  /\ IF active # <<>>
     THEN listActive' = detailOf(active[1])
     ELSE UNCHANGED listActive
  /\ UNCHANGED <<books, bookPreview, clickPath, catalogVars, searchOverlayOpen, settingsOverlayOpen, themeVars>>

WalkPaths(bs) == UNION { [1..n -> Nodes(bs)] : n \in 0..MaxWalk }

\* one click event, with its path, given to either handler any number of times
InitClick ==
  /\ \E bs \in { Catalog(0, n) : n \in 0..PanelBooks } : Start(bs)
  /\ bookPreview = NewBookPreview
  /\ clickPath \in WalkPaths(books)

NextClick ==
  \/ ListItemsClick(clickPath)
  \/ ListItemsClickWalk(clickPath)
  \/ ListCloseClick

SpecClick == InitClick /\ [][NextClick]_vars

(* ---------------- BookPreview component ---------------- *)
AttrNames == {"title", "author", "image", "id"}

observedAttributes == {"title", "author", "image", "id"}

AttrValues == {"x", "y"}

\* getAttribute: <<>> is null
getAttribute(el, name) == el.attrs[name]

\* textContent = v: null gives the empty text
textContentOf(v) == IF v = <<>> THEN "" ELSE v[1]

\* img.src = v: null is converted to the string "null"
srcOf(v) == IF v = <<>> THEN "null" ELSE v[1]

updateComponent(el) ==
  [el EXCEPT !.shown = [title  |-> textContentOf(getAttribute(el, "title")),
                        author |-> textContentOf(getAttribute(el, "author")),
                        src    |-> srcOf(getAttribute(el, "image"))]]

attributeChangedCallback(el, name) ==
  IF name \in observedAttributes THEN updateComponent(el) ELSE el

programVars == <<books, catalogVars, searchOverlayOpen, settingsOverlayOpen, listActive,
                 themeVars, lastEvent, clickPath>>

\* the element is inserted into the document
PreviewConnect ==
  /\ ~bookPreview.connected
  /\ bookPreview' = updateComponent([bookPreview EXCEPT !.connected = TRUE])
  /\ UNCHANGED programVars

PreviewSetAttribute(name, value) ==
  /\ bookPreview' = attributeChangedCallback([bookPreview EXCEPT !.attrs[name] = <<value>>], name)
  /\ UNCHANGED programVars

\* removing an attribute that is not set changes nothing and calls nothing
PreviewRemoveAttribute(name) ==
  /\ bookPreview.attrs[name] # <<>>
  /\ bookPreview' = attributeChangedCallback([bookPreview EXCEPT !.attrs[name] = <<>>], name)
  /\ UNCHANGED programVars

InitPreview == Init /\ books = <<>>

NextPreview ==
  \/ PreviewConnect
  \/ \E name \in AttrNames, value \in AttrValues : PreviewSetAttribute(name, value)
  \/ \E name \in AttrNames : PreviewRemoveAttribute(name)

SpecPreview == InitPreview /\ [][NextPreview]_vars

\* every handler of setUpEventListeners, over the datasets of at most PanelBooks records
\* that start the cycle of profiles at its first entry
InitAll == Init /\ books \in { Catalog(0, n) : n \in 0..PanelBooks }

NextAll ==
  \/ Next
  \/ HeaderSearchClick
  \/ SearchCancelClick
  \/ HeaderSettingsClick
  \/ SettingsCancelClick
  \/ \E theme \in Themes : SettingsSubmit(theme)

SpecAll == InitAll /\ [][NextAll]_vars

(* ======================= properties ======================= *)
Ids(bs) == { bs[i].id : i \in 1..Len(bs) }

\* position in the dataset of the record with this identifier (identifiers are unique)
IndexOf(bs, id) == CHOOSE j \in 1..Len(bs) : bs[j].id = id

RecordWithId(id) == books[IndexOf(books, id)]

AllThree(book, q) == titleMatch(book, q) /\ authorMatch(book, q) /\ genreMatch(book, q)

Ceil(a, b) == (a + b - 1) \div b

\* the elements the list shows for the first k records of ms
Rendered(ms, k) == [i \in 1..k |-> createBookElement(ms[i])]

\* ms is the dataset bs restricted to the records satisfying all three predicates of q,
\* in dataset order
IsRestriction(ms, bs, q) ==
  /\ \A i \in 1..Len(ms) : ms[i].id \in Ids(bs) /\ ms[i] = bs[IndexOf(bs, ms[i].id)]
  /\ \A i \in 1..Len(ms) : AllThree(ms[i], q)
  /\ \A j \in 1..Len(bs) : AllThree(bs[j], q) <=> (\E i \in 1..Len(ms) : ms[i] = bs[j])
  /\ \A i \in 1..Len(ms), k \in 1..Len(ms) :
       i < k => IndexOf(bs, ms[i].id) < IndexOf(bs, ms[k].id)

\* C1: whatever the query and the dataset, the result sequence stored by the search
\* form submit handler is the dataset restricted to the records that satisfy the title,
\* the author and the genre predicate, in dataset order.
C1_FilterIsRestriction ==
  [][\A q \in Queries : SearchSubmit(q) => IsRestriction(matches', books, q)]_vars

C1_Witness ==
  /\ lastEvent.handler = "searchSubmit"
  /\ Len(matches) >= 2
  /\ Len(matches) < Len(books)
  /\ matches[1] # books[1]

\* C2: in every reachable state the number of rendered list entries is
\* min(page * pageSize, |matches|).
C2_RenderedCount == Len(listItems) = Min(page * BOOKS_PER_PAGE, Len(matches))

C2_Witness ==
  /\ lastEvent.handler = "listButton"
  /\ page = 2
  /\ matches # books
  /\ Len(matches) = BOOKS_PER_PAGE + 1
  /\ Len(listItems) = Len(matches)

\* C3: in every reachable state the show-more button is enabled exactly when fewer
\* records are rendered than the result sequence holds, i.e. when
\* |matches| - page * pageSize > 0.
C3_ButtonEnabledIffMore ==
  /\ (~listButtonDisabled) <=> (Len(listItems) < Len(matches))
  /\ (~listButtonDisabled) <=> (remainingCount(matches, page) > 0)

\* C4: the count shown on the show-more button is the number of result records not yet
\* rendered, which is never negative; stated for the states after a click on the button
\* or a search form submit, the two events the claim names.
C4_LiveRemainingCount ==
  lastEvent.handler \in {"listButton", "searchSubmit"}
    => /\ listButtonRemaining = Len(matches) - Len(listItems)
       /\ listButtonRemaining >= 0

\* C5: after startup or a search with a non-empty result, once the show-more button has
\* been clicked ceil(|matches| / pageSize) - 1 times (the cursor counts the clicks from 1),
\* every record of the result is rendered and the button is disabled.
C5_ExhaustedDisables ==
  (Len(matches) > 0 /\ page - 1 = Ceil(Len(matches), BOOKS_PER_PAGE) - 1)
    => (Len(listItems) = Len(matches) /\ listButtonDisabled)

\* C6: right after a search form submit the cursor is 1 and the list holds nothing but
\* the first min(pageSize, |matches|) records of the new result sequence.
C6_SubmitResets ==
  lastEvent.handler = "searchSubmit"
    => /\ page = 1
       /\ listItems = Rendered(matches, Min(BOOKS_PER_PAGE, Len(matches)))

C6_Witness ==
  /\ lastEvent.handler = "searchSubmit"
  /\ matches # books
  /\ Len(matches) > BOOKS_PER_PAGE
  /\ Len(listItems) = BOOKS_PER_PAGE

\* C7: a click on the show-more button when nothing is left to reveal
\* (page * pageSize >= |matches|) changes neither the cursor, the result sequence,
\* the rendered list nor the button.
C7_RevealNothingIsNoOp ==
  [][(ListButtonClick /\ page * BOOKS_PER_PAGE >= Len(matches))
       => UNCHANGED <<page, matches, listItems, listButtonDisabled, listButtonRemaining>>]_vars

\* C8: right after a list click that captured an identifier of the dataset, the detail
\* panel is open and filled from the record with that identifier, whether or not the
\* current result sequence contains the record.
C8_SelectionOpensRecord ==
  (/\ lastEvent.handler = "listItems"
   /\ lastEvent.active # <<>>
   /\ lastEvent.active[1] \in Ids(books))
    => listActive = detailOf(RecordWithId(lastEvent.active[1]))

C8_Witness ==
  /\ lastEvent.handler = "listItems"
  /\ lastEvent.active # <<>>
  /\ listActive.open
  /\ \E i \in 1..Len(books) :
       /\ listActive = detailOf(books[i])
       /\ books[i].id \notin Ids(matches)

\* C9: a list click that captures no identifier, or one that is not in the dataset,
\* leaves the detail panel (open flag and content), the cursor, the result sequence and
\* the rendered list unchanged.
C9_AbsentSelectionIsNoOp ==
  [][(/\ lastEvent'.handler = "listItems"
      /\ (lastEvent'.active = <<>> \/ lastEvent'.active[1] \notin Ids(books)))
       => UNCHANGED <<listActive, page, matches, listItems>>]_vars

C9_Witness ==
  /\ lastEvent = Event("listItems", <<AbsentId>>)
  /\ listActive = EmptyDetail
  /\ books # <<>>

\* C10: right after a search form submit the "no results" message is shown exactly when
\* the result sequence is empty, and an empty result leaves the cursor at 1, nothing
\* rendered and the show-more button disabled.
C10_NoResultsIndicator ==
  lastEvent.handler = "searchSubmit"
    => /\ listMessageShow <=> (matches = <<>>)
       /\ matches = <<>> => (page = 1 /\ listItems = <<>> /\ listButtonDisabled)

C10_Witness ==
  /\ lastEvent.handler = "searchSubmit"
  /\ books # <<>>
  /\ matches = <<>>
  /\ listMessageShow

SameLetter(c, d) ==
  c = d \/ \E k \in 1..Len(UpperChars) : {c, d} = {UpperChars[k], LowerChars[k]}

\* q occurs in title as a substring, letter case ignored
ContainsIgnoringCase(title, q) ==
  \E o \in 0..(Len(title) - Len(q)) : \A k \in 1..Len(q) : SameLetter(title[o + k], q[k])

OnlySpaces(q) == \A k \in 1..Len(q) : q[k] = " "

\* C11 as claimed: a record passes the title test exactly when the query is empty or its
\* title contains the query, letter case ignored, whatever whitespace the query holds.
C11_TitleEmptyOrContains ==
  [][\A t \in TitleInputs :
       TitleSubmit(t) =>
         \A i \in 1..Len(books) :
           (books[i].id \in Ids(matches'))
             <=> (t = <<>> \/ ContainsIgnoringCase(books[i].title, t))]_vars

\* C11 as amended: a record passes the title test exactly when the query is empty or
\* holds only whitespace, or its title contains the query as typed, letter case ignored.
C11_TitleBlankOrContains ==
  [][\A t \in TitleInputs :
       TitleSubmit(t) =>
         \A i \in 1..Len(books) :
           (books[i].id \in Ids(matches'))
             <=> (OnlySpaces(t) \/ ContainsIgnoringCase(books[i].title, t))]_vars

C11_Witness ==
  /\ lastEvent.handler = "searchSubmit"
  /\ Len(matches) > 0
  /\ Len(matches) < Len(books)
  /\ \E i \in 1..Len(matches) : arrayIncludes(matches[i].title, " ")

\* C12: the palette is the colour pair of the mode applied last (at startup the ambient
\* preference, afterwards the last settings submit): night gives dark '255, 255, 255' and
\* light '10, 10, 20', day the swapped pair.
C12_PaletteOfLastMode ==
  /\ settingsTheme \in Themes
  /\ settingsTheme = "night" => (colorDark = "255, 255, 255" /\ colorLight = "10, 10, 20")
  /\ settingsTheme = "day" => (colorDark = "10, 10, 20" /\ colorLight = "255, 255, 255")

C12_Witness ==
  /\ lastEvent.handler = "settingsSubmit"
  /\ settingsTheme = "day"
  /\ colorLight = "255, 255, 255"
  /\ page > 1

PanelTriggers == {"headerSearch", "searchCancel", "headerSettings", "settingsCancel", "listClose"}

\* C14: each open or close trigger sets the flag of its own panel to its target value
\* and leaves the flags of the other two panels unchanged; run a second time in a row it
\* changes nothing.
C14_PanelFlagsIndependent ==
  [][LET h == lastEvent'.handler IN
     /\ h = "headerSearch" =>
          (searchOverlayOpen' /\ UNCHANGED settingsOverlayOpen /\ listActive'.open = listActive.open)
     /\ h = "searchCancel" =>
          (~searchOverlayOpen' /\ UNCHANGED settingsOverlayOpen /\ listActive'.open = listActive.open)
     /\ h = "headerSettings" =>
          (settingsOverlayOpen' /\ UNCHANGED searchOverlayOpen /\ listActive'.open = listActive.open)
     /\ h = "settingsCancel" =>
          (~settingsOverlayOpen' /\ UNCHANGED searchOverlayOpen /\ listActive'.open = listActive.open)
     /\ h = "listClose" =>
          (~listActive'.open /\ UNCHANGED <<searchOverlayOpen, settingsOverlayOpen>>)
     /\ (h \in PanelTriggers /\ lastEvent.handler = h) => UNCHANGED vars]_vars

C14_Witness ==
  /\ lastEvent.handler = "settingsCancel"
  /\ searchOverlayOpen
  /\ ~settingsOverlayOpen
  /\ listActive.open

\* C18: only the search form submit and the show-more click change the result sequence,
\* the cursor or the rendered list; the show-more click leaves the result sequence as it is.
C18_OnlySearchAndRevealWrite ==
  [][/\ lastEvent'.handler \notin {"searchSubmit", "listButton"}
          => UNCHANGED <<matches, page, listItems>>
     /\ lastEvent'.handler = "listButton" => UNCHANGED matches]_vars

C18_Witness ==
  /\ lastEvent.handler = "listItems"
  /\ listActive.open
  /\ settingsTheme = "night"
  /\ searchOverlayOpen
  /\ page > 1
  /\ Len(listItems) > BOOKS_PER_PAGE

\* what an attribute value displays as: its text, nothing when the attribute is not set
ValueOf(v) == IF v = <<>> THEN "" ELSE v[1]

\* C13: once the BookPreview element is connected, whatever changes its attributes went
\* through, the title, the author and the image source it displays are the current
\* values of its title, author and image attributes.
C13_PreviewShowsAttributes ==
  bookPreview.connected
    => /\ bookPreview.shown.title = ValueOf(bookPreview.attrs.title)
       /\ bookPreview.shown.author = ValueOf(bookPreview.attrs.author)
       /\ bookPreview.shown.src = ValueOf(bookPreview.attrs.image)

\* the elements of the block of results that follows page p
NextBlock(ms, p) ==
  [i \in 1..Min(BOOKS_PER_PAGE, Len(ms) - p * BOOKS_PER_PAGE)
     |-> createBookElement(ms[p * BOOKS_PER_PAGE + i])]

\* C15: a show-more click with records left appends the next block of the results
\* (cut at their end) to the list as it was, adds one to the cursor and leaves the result
\* sequence unchanged.
C15_RevealAppendsNextBlock ==
  [][(lastEvent'.handler = "listButton" /\ page * BOOKS_PER_PAGE < Len(matches))
       => /\ listItems' = listItems \o NextBlock(matches, page)
          /\ page' = page + 1
          /\ matches' = matches]_vars

C15_Witness ==
  /\ lastEvent.handler = "listButton"
  /\ page = 2
  /\ Len(matches) > 2 * BOOKS_PER_PAGE
  /\ Len(listItems) = 2 * BOOKS_PER_PAGE

\* C16: the cursor starts at 1 and stays >= 1; it goes down only when a search submit
\* resets it to 1, and it goes up, by exactly 1, only when a show-more click reveals more
\* results.
C16_CursorMoves ==
  [][/\ lastEvent.handler = "init" => page = 1
     /\ page' >= 1
     /\ page' < page => (lastEvent'.handler = "searchSubmit" /\ page' = 1)
     /\ page' > page => /\ page' = page + 1
                        /\ lastEvent'.handler = "listButton"
                        /\ Len(listItems') > Len(listItems)]_vars

\* the catalogue state a submit of q leaves, computed from the dataset and q alone
AfterSubmit(bs, q) ==
  LET r == SelectSeq(bs, LAMBDA b : AllThree(b, q)) IN
  <<1, r, Rendered(r, Min(BOOKS_PER_PAGE, Len(r))), r = <<>>,
    Len(r) <= BOOKS_PER_PAGE, Len(r) - BOOKS_PER_PAGE>>

\* C17: the result sequence, the cursor, the rendered list, the button and the "no
\* results" message after a search submit are a function of the query and the dataset,
\* whatever the state before the submit.
C17_SubmitRecomputes ==
  [][\A q \in Queries : SearchSubmit(q) => catalogVars' = AfterSubmit(books, q)]_vars

C17_Witness ==
  /\ lastEvent.handler = "searchSubmit"
  /\ matches = books
  /\ Len(books) > 2 * BOOKS_PER_PAGE
  /\ ~listMessageShow
  /\ ~listButtonDisabled

\* C20: in every reachable state the rendered list is the prefix of the current result
\* sequence of length min(page * pageSize, |matches|), record by record and in order.
C20_RenderedIsPrefix ==
  listItems = Rendered(matches, Min(page * BOOKS_PER_PAGE, Len(matches)))

C20_Witness ==
  /\ lastEvent.handler = "listButton"
  /\ matches # books
  /\ page = 2
  /\ Len(matches) = 2 * BOOKS_PER_PAGE
  /\ Len(listItems) = 2 * BOOKS_PER_PAGE

\* the detail panel each handler leaves for a path, from the panel cur
FindOutcome(path, cur) ==
  LET active == findPreview(path) IN
  IF active # <<>> /\ booksFind(active[1]) # <<>> THEN detailOf(booksFind(active[1])[1]) ELSE cur

WalkOutcome(path, cur) ==
  LET active == walkPath(path, <<>>) IN
  IF active # <<>> THEN detailOf(active[1]) ELSE cur

\* each handler leaves the panel the other one would have left
HandlersAgree ==
  /\ lastEvent'.handler = "listItems" => listActive' = WalkOutcome(clickPath, listActive)
  /\ lastEvent'.handler = "listItemsWalk" => listActive' = FindOutcome(clickPath, listActive)

\* the first node of the path with an identifier carries one of the dataset, or no node
\* of the path carries an identifier of the dataset
FirstIdKnownOrNoneKnown(path, bs) ==
  LET idx == { i \in 1..Len(path) : path[i].has /\ path[i].preview # "" } IN
  \/ \A i \in idx : path[i].preview \notin Ids(bs)
  \/ path[CHOOSE i \in idx : \A j \in idx : i <= j].preview \in Ids(bs)

\* C19 as claimed: for every dataset and every propagation path the handler of
\* scripts.js and the handler of part_001 open the detail panel in the same cases and
\* with the same record.
C19_HandlersEquivalent == [][HandlersAgree]_vars

\* C19 as amended: they do so for every path whose first node with an identifier
\* carries an identifier of the dataset, and for every path none of whose identifiers is
\* in the dataset.
C19_HandlersEquivalentOnKnownFirst ==
  [][FirstIdKnownOrNoneKnown(clickPath, books) => HandlersAgree]_vars

C19_Witness ==
  /\ lastEvent.handler = "listItemsWalk"
  /\ Len(clickPath) = 2
  /\ ~clickPath[1].has
  /\ clickPath[2].preview \in Ids(books)
  /\ listActive.open
  /\ listActive = FindOutcome(clickPath, EmptyDetail)

====
